---- MODULE Spec2Model ----
(***************************************************************************)
(* Model of mlflow/data/spark_dataset.py: the SparkDataset wrapper, its    *)
(* derived views (schema, profile, serialised form, pyfunc view) and the   *)
(* two factories load_delta and from_spark.                                *)
(*                                                                         *)
(* One behaviour is one call of an entry point (the constructor,           *)
(* load_delta or from_spark) followed by method calls on the dataset it    *)
(* returned.  The dataframe engine, the Delta utilities and the schema     *)
(* inference utility are the environment: what they answer is chosen       *)
(* nondeterministically and every call made to them is logged.             *)
(***************************************************************************)
EXTENDS Integers, Sequences, FiniteSets, TLC

VARIABLES
    input,       \* the arguments the caller passes to the entry point
    obj,         \* the SparkDataset the entry point returned, or NoObject
    last,        \* the last call: operation, arguments, exception, result, engine calls
    calls,       \* number of method calls made on obj
    inferCalls,  \* number of invocations of _infer_schema on obj's dataframe
    warnings,    \* number of warnings the module's logger emitted
    profiles,    \* the values the accesses to obj.profile returned, in order
    cmb,         \* a call of _combine_input_and_output: arguments and outcome
    lcEnv,       \* autologging: the configuration, the model and the caller's objects
    lcModel,     \* autologging: the attributes set on the langchain model
    lcHeap,      \* autologging: the caller's callbacks list and config dictionary
    lcLast,      \* autologging: the last call of patched_inference
    lcHist       \* autologging: what the calls of patched_inference did so far

dsvars == <<input, obj, last, calls, inferCalls, warnings, profiles>>

lcvars == <<lcEnv, lcModel, lcHeap, lcLast, lcHist>>

vars == <<input, obj, last, calls, inferCalls, warnings, profiles, cmb,
          lcEnv, lcModel, lcHeap, lcLast, lcHist>>

----------------------------------------------------------------------------
(* Bounds *)

MaxVersion == 1      \* caller-supplied Delta versions range over 0..MaxVersion
MaxCalls == 2        \* method calls made on one dataset
MaxListLen == 2      \* length of the lists handed to _combine_input_and_output
MaxInferences == 2   \* calls of patched_inference on one model
ExtraRows == 5000    \* the largest dataframe has ROW_LIMIT + ExtraRows rows

(* Program constants *)

ROW_LIMIT == 10000       \* to_pyfunc: self._df.limit(10000)
COUNT_TIMEOUT == 1000    \* profile: countApprox(timeout=1000, ...)
COUNT_CONFIDENCE == 90   \* profile: countApprox(..., confidence=0.90), in percent

----------------------------------------------------------------------------
(* Python values *)

None == <<>>
Some(v) == <<v>>
Val(o) == o[1]

\* bool(x) for an Optional[int]: None and 0 are falsy
PyTruthy(o) == o # None /\ Val(o) # 0

\* x or y
PyOr(x, y) == IF PyTruthy(x) THEN x ELSE y

\* tuple.count(None)
CountNone(t) == Cardinality({i \in DOMAIN t : t[i] = None})

\* str(version), as the f-string f"v{version}" formats it
PyStr(n) == ToString(n)

Min(a, b) == IF a < b THEN a ELSE b

NoObject == [kind |-> "NoObject"]

----------------------------------------------------------------------------
(* Input domains *)

Columns == {"x", "y"}
ColumnSets == {{"x", "y"}, {"x"}}
RowCounts == {2, ROW_LIMIT, ROW_LIMIT + ExtraRows}

\* What semanticHash() answers for a dataframe: None when it raises
SemanticHashes == {None, Some(17)}

\* A Spark DataFrame handle: its column names, the rows it denotes (rows
\* first..first+nrows-1 of the engine's row order), whether schema
\* inference on it raises, and the hash of its logical plan.
DataFrames ==
    [columns : ColumnSets, first : {1}, nrows : RowCounts, inferRaises : BOOLEAN,
     semanticHash : SemanticHashes]

Paths == {None, Some("p")}
TableNames == {None, Some("t")}
Sqls == {None, Some("q")}
Versions == {None} \cup {Some(v) : v \in 0..MaxVersion}
LatestVersions == {None, Some(MaxVersion + 2)}
TargetsArgs == {None, Some("y"), Some("z")}
Names == {None, Some("n")}
Digests == {None, Some("d")}
ApproxCounts == {0, 7}

\* Sources a caller passes to the constructor directly
DirectSources ==
    { [type |-> "SparkDatasetSource", path |-> Some("p"), table_name |-> None,
       sql |-> None],
      [type |-> "DeltaDatasetSource", path |-> None,
       delta_table_name |-> Some("t"), delta_table_version |-> Some(0)] }

----------------------------------------------------------------------------
(* Outcomes of a call *)

Returned(value, io) ==
    [exc |-> "none", site |-> "none", ret |-> value, io |-> io]

Raised(exc, site, io) ==
    [exc |-> exc, site |-> site, ret |-> None, io |-> io]

EngineCall(fn, arg, ret) == [fn |-> fn, arg |-> arg, ret |-> ret]

\* names of the engine calls of a log, in order
Fns(io) == [i \in DOMAIN io |-> io[i].fn]

----------------------------------------------------------------------------
(* Environment: logging, schema inference, the dataframe engine *)

\* The methods a logging.Logger has; calling any other attribute raises
\* AttributeError.
LoggerMethods ==
    {"debug", "info", "warning", "warn", "error", "exception", "critical", "log"}

\* The logger method the except-handler of schema calls
SchemaWarnMethod == "_warning"

\* _infer_schema(df) when it does not raise: the column specification
InferSchema(df) == [colspec |-> df.columns]

\* Schema.to_dict()
SchemaToDict(schema) == {[name |-> c] : c \in schema.colspec}

\* json.dumps(value)
JsonDumps(value) == [json |-> value]

\* DataFrame.limit(n): the first n rows in the engine's row order
DataFrameLimit(df, n) == [df EXCEPT !.nrows = Min(df.nrows, n)]

\* DataFrame.toPandas(): a local table holding rows first..first+nrows-1 of
\* the engine's row order, with the columns the conversion produced
ToPandas(df, cols) == [columns |-> cols, first |-> df.first, nrows |-> df.nrows]

\* pandas.DataFrame.drop(columns=c)
PandasDrop(pdf, c) == [pdf EXCEPT !.columns = pdf.columns \ {c}]

\* pandas.DataFrame[c]
PandasColumn(pdf, c) == [name |-> c, first |-> pdf.first, nrows |-> pdf.nrows]

----------------------------------------------------------------------------
(* class SparkDataset *)

NoCache == [computed |-> FALSE, value |-> None]

\* mutant: the membership test without the test for None
SparkDataset__init__NoNoneTest(df, source, targets, name, digest) ==
    IF targets = None \/ Val(targets) \notin df.columns
    THEN Raised("InvalidParameter", "targets", <<>>)
    ELSE Returned([_df |-> df, _targets |-> targets, _source |-> source,
                   _name |-> name, _digest |-> digest, cache |-> NoCache],
                  <<>>)

SparkDataset__init__(df, source, targets, name, digest) ==
    IF targets # None /\ Val(targets) \notin df.columns
    THEN Raised("InvalidParameter", "targets", <<>>)
    ELSE Returned([_df |-> df, _targets |-> targets, _source |-> source,
                   _name |-> name, _digest |-> digest, cache |-> NoCache],
                  <<>>)

\* numpy.int64(n) of the 32-bit integer semanticHash() answers: the same
\* value as a 64-bit integer
NpInt64(n) == [int64 |-> n]

\* get_normalized_md5_digest(elements): a fingerprint determined by the
\* elements
NormalizedMd5(elements) == [md5 |-> elements]

\* mutant: the digest also covers the number of rows
_compute_digest_WithCount(self) ==
    IF self._df.semanticHash = None
    THEN Raised("EngineError", "semanticHash",
                <<EngineCall("semanticHash", None, None)>>)
    ELSE Returned(NormalizedMd5(<<NpInt64(Val(self._df.semanticHash)),
                                  NpInt64(self._df.nrows)>>),
                  <<EngineCall("semanticHash", None, self._df.semanticHash),
                    EngineCall("count", None, self._df.nrows)>>)

\* _compute_digest: the normalized md5 digest of the dataframe's semantic
\* hash; an exception of semanticHash() propagates.
_compute_digest(self) ==
    IF self._df.semanticHash = None
    THEN Raised("EngineError", "semanticHash",
                <<EngineCall("semanticHash", None, None)>>)
    ELSE Returned(NormalizedMd5(<<NpInt64(Val(self._df.semanticHash))>>),
                  <<EngineCall("semanticHash", None, self._df.semanticHash)>>)

\* The body of the schema property: one inference call; on an exception the
\* handler calls the logger and returns None.
schema(self) ==
    IF ~self._df.inferRaises
    THEN [exc |-> "none", ret |-> Some(InferSchema(self._df)), warned |-> 0]
    ELSE IF SchemaWarnMethod \in LoggerMethods
         THEN [exc |-> "none", ret |-> None, warned |-> 1]
         ELSE [exc |-> "AttributeError", ret |-> None, warned |-> 0]

\* functools.cached_property around schema: the body runs when the instance
\* holds no cached value, and its value is stored only when it returns.
SchemaAccess(self) ==
    IF self.cache.computed
    THEN [exc |-> "none", ret |-> self.cache.value, cache |-> self.cache,
          inferred |-> 0, warned |-> 0]
    ELSE LET r == schema(self)
         IN  [exc |-> r.exc, ret |-> r.ret,
              cache |-> IF r.exc = "none"
                        THEN [computed |-> TRUE, value |-> r.ret]
                        ELSE self.cache,
              inferred |-> 1, warned |-> r.warned]

\* mutant: the exact number of rows, without the approximate count
profile_ExactCount(self, approx) ==
    Returned([approx_count |-> self._df.nrows],
             <<EngineCall("count", None, self._df.nrows)>>)

\* The profile property; approx is what countApprox answers.
profile(self, approx) ==
    Returned([approx_count |-> approx],
             <<EngineCall("countApprox",
                          [timeout |-> COUNT_TIMEOUT, confidence |-> COUNT_CONFIDENCE],
                          approx)>>)

\* What Dataset.to_dict hands to _to_dict
BaseDict(self) ==
    [name |-> self._name, digest |-> self._digest,
     source |-> JsonDumps(self._source), source_type |-> self._source.type]

\* _to_dict(base_dict): the schema entry is evaluated first, then the profile
\* entry, then base_dict is updated with both.
_to_dict(self, base_dict, approx) ==
    LET s == SchemaAccess(self)
        p == profile(self, approx)
    IN  IF s.exc # "none"
        THEN [out |-> Raised(s.exc, "schema", <<>>), access |-> s]
        ELSE IF s.ret = None
             THEN [out |-> Raised("AttributeError", "to_dict", <<>>), access |-> s]
             ELSE [out |-> Returned(
                              [schema |-> JsonDumps([mlflow_colspec |->
                                                     SchemaToDict(Val(s.ret))]),
                               profile |-> JsonDumps(p.ret)] @@ base_dict,
                              p.io),
                   access |-> s]

\* mutant: the dataframe is converted without the row limit
Materialize_NoLimit(self, pdcols) ==
    ToPandas(self._df, pdcols)

\* self._df.limit(10000).toPandas(); pdcols are the columns of the pandas
\* representation.
Materialize(self, pdcols) ==
    ToPandas(DataFrameLimit(self._df, ROW_LIMIT), pdcols)

\* mutant: the targets column is left in inputs
to_pyfunc_KeepTarget(self, pdcols) ==
    LET df == Materialize(self, pdcols)
    IN  IF self._targets # None
        THEN IF Val(self._targets) \notin df.columns
             THEN Raised("Internal", "to_pyfunc", <<>>)
             ELSE Returned([inputs |-> df,
                            outputs |-> Some(PandasColumn(df, Val(self._targets)))],
                           <<>>)
        ELSE Returned([inputs |-> df, outputs |-> None], <<>>)

to_pyfunc(self, pdcols) ==
    LET df == Materialize(self, pdcols)
    IN  IF self._targets # None
        THEN IF Val(self._targets) \notin df.columns
             THEN Raised("Internal", "to_pyfunc", <<>>)
             ELSE Returned([inputs |-> PandasDrop(df, Val(self._targets)),
                            outputs |-> Some(PandasColumn(df, Val(self._targets)))],
                           <<>>)
        ELSE Returned([inputs |-> df, outputs |-> None], <<>>)

----------------------------------------------------------------------------
(* The factories *)

\* The parameters load_delta declares; a call passing any other keyword
\* raises TypeError before the body runs.
LoadDeltaParams == {"path", "table_name", "version", "targets", "name", "digest"}

\* load_delta: an unspecified version is resolved by the latest-version
\* lookup, by path or by table name.  Gives the version and the engine calls.
LoadDeltaVersion(a, latest) ==
    IF a.version = None
    THEN IF a.path # None
         THEN [version |-> latest,
               io |-> <<EngineCall("latest_version_from_path", a.path, latest)>>]
         ELSE [version |-> latest,
               io |-> <<EngineCall("latest_version_from_table_name",
                                   a.table_name, latest)>>]
    ELSE [version |-> a.version, io |-> <<>>]

\* mutant: the default name replaces a name the caller supplied
LoadDeltaName_Overwrite(a, version) ==
    IF a.table_name # None
    THEN Some(Val(a.table_name) \o
              (IF version # None THEN "v" \o PyStr(Val(version)) ELSE ""))
    ELSE a.name

\* load_delta: the default name
LoadDeltaName(a, version) ==
    IF a.name = None /\ a.table_name # None
    THEN Some(Val(a.table_name) \o
              (IF version # None THEN "v" \o PyStr(Val(version)) ELSE ""))
    ELSE a.name

\* mutant: only a call with neither path nor table_name is rejected
load_delta_AcceptBoth(a, latest, loaded) ==
    IF ~(a.extra \subseteq LoadDeltaParams)
    THEN Raised("TypeError", "call", <<>>)
    ELSE IF CountNone(<<a.path, a.table_name>>) = 2
    THEN Raised("InvalidParameter", "specifier", <<>>)
    ELSE
    LET v == LoadDeltaVersion(a, latest)
        source == [type |-> "DeltaDatasetSource", path |-> a.path,
                   delta_table_name |-> a.table_name,
                   delta_table_version |-> v.version]
    IN  [SparkDataset__init__(loaded, source, a.targets,
                              LoadDeltaName(a, v.version), a.digest)
         EXCEPT !.io = v.io \o <<EngineCall("source.load", source, loaded)>>]

\* load_delta(**a); a.extra are the keywords passed besides path, table_name,
\* version, targets, name and digest.  latest is what the latest-version
\* lookup answers, loaded is the dataframe source.load() returns.
load_delta(a, latest, loaded) ==
    IF ~(a.extra \subseteq LoadDeltaParams)
    THEN Raised("TypeError", "call", <<>>)
    ELSE IF CountNone(<<a.path, a.table_name>>) # 1
    THEN Raised("InvalidParameter", "specifier", <<>>)
    ELSE
    LET v == LoadDeltaVersion(a, latest)
        source == [type |-> "DeltaDatasetSource", path |-> a.path,
                   delta_table_name |-> a.table_name,
                   delta_table_version |-> v.version]
    IN  [SparkDataset__init__(loaded, source, a.targets,
                              LoadDeltaName(a, v.version), a.digest)
         EXCEPT !.io = v.io \o <<EngineCall("source.load", source, loaded)>>]

\* from_spark: the version of a Delta source, version or <latest-version
\* lookup>.  Gives the version and the engine calls.
FromSparkVersion(a, latest) ==
    IF PyTruthy(a.version)
    THEN [version |-> a.version, io |-> <<>>]
    ELSE IF a.path # None
         THEN [version |-> latest,
               io |-> <<EngineCall("latest_version_from_path", a.path, latest)>>]
         ELSE [version |-> latest,
               io |-> <<EngineCall("latest_version_from_table_name",
                                   a.table_name, latest)>>]

\* mutant: a version on a non-Delta path or table is ignored
FromSparkSource_IgnoreVersion(a, isDelta, latest) ==
    IF a.sql # None
    THEN Returned([type |-> "SparkDatasetSource", path |-> None,
                   table_name |-> None, sql |-> a.sql], <<>>)
    ELSE
    LET detect == IF a.path # None
                  THEN <<EngineCall("_is_delta_table_path", a.path, isDelta)>>
                  ELSE <<EngineCall("_is_delta_table", a.table_name, isDelta)>>
        v == FromSparkVersion(a, latest)
    IN  IF isDelta
        THEN Returned([type |-> "DeltaDatasetSource", path |-> a.path,
                       delta_table_name |-> a.table_name,
                       delta_table_version |-> v.version],
                      detect \o v.io)
        ELSE Returned([type |-> "SparkDatasetSource", path |-> a.path,
                       table_name |-> a.table_name, sql |-> None], detect)

\* from_spark: the source built from sql, path or table_name.  isDelta is
\* what the Delta-format detection answers.
FromSparkSource(a, isDelta, latest) ==
    IF a.sql # None
    THEN Returned([type |-> "SparkDatasetSource", path |-> None,
                   table_name |-> None, sql |-> a.sql], <<>>)
    ELSE
    LET detect == IF a.path # None
                  THEN <<EngineCall("_is_delta_table_path", a.path, isDelta)>>
                  ELSE <<EngineCall("_is_delta_table", a.table_name, isDelta)>>
        v == FromSparkVersion(a, latest)
    IN  IF isDelta
        THEN Returned([type |-> "DeltaDatasetSource", path |-> a.path,
                       delta_table_name |-> a.table_name,
                       delta_table_version |-> v.version],
                      detect \o v.io)
        ELSE IF a.version = None
        THEN Returned([type |-> "SparkDatasetSource", path |-> a.path,
                       table_name |-> a.table_name, sql |-> None], detect)
        ELSE Raised("InvalidParameter", "not_delta", detect)

\* mutant: the source is resolved before the arguments are validated
from_spark_ResolveFirst(a, isDelta, latest) ==
    LET src == FromSparkSource(a, isDelta, latest)
    IN  IF CountNone(<<a.path, a.table_name, a.sql>>) # 2
        THEN Raised("InvalidParameter", "specifier", src.io)
        ELSE IF CountNone(<<a.sql, a.version>>) = 0
        THEN Raised("InvalidParameter", "sql_version", src.io)
        ELSE IF src.exc # "none"
        THEN src
        ELSE [SparkDataset__init__(a.df, src.ret, a.targets, a.name, a.digest)
              EXCEPT !.io = src.io]

\* from_spark(**a)
from_spark(a, isDelta, latest) ==
    IF CountNone(<<a.path, a.table_name, a.sql>>) # 2
    THEN Raised("InvalidParameter", "specifier", <<>>)
    ELSE IF CountNone(<<a.sql, a.version>>) = 0
    THEN Raised("InvalidParameter", "sql_version", <<>>)
    ELSE
    LET src == FromSparkSource(a, isDelta, latest)
    IN  IF src.exc # "none"
        THEN src
        ELSE [SparkDataset__init__(a.df, src.ret, a.targets, a.name, a.digest)
              EXCEPT !.io = src.io]

----------------------------------------------------------------------------
(* State machine *)

NoEnv == [kind |-> "NoEnv"]

\* The caller's arguments.  df is the dataframe handed to the constructor and
\* to from_spark; for load_delta it is the dataframe the Delta source loads.
\* A non-null sql handed to load_delta is the extra keyword sql.
Inputs ==
    [df : DataFrames, path : Paths, table_name : TableNames,
     version : Versions, sql : Sqls, targets : TargetsArgs, name : Names,
     digest : Digests]

\* no call of _combine_input_and_output is under way
CombineIdle == [phase |-> "idle"]

\* patched_inference is not in use
AutologIdle ==
    /\ lcEnv = [kind |-> "NoEnv"]
    /\ lcModel = [kind |-> "NoModel"]
    /\ lcHeap = [kind |-> "NoHeap"]
    /\ lcLast = [func_name |-> "none"]
    /\ lcHist = [calls |-> 0]

Init ==
    /\ cmb = CombineIdle
    /\ AutologIdle
    /\ input \in Inputs
    /\ obj = NoObject
    /\ last = [op |-> "none", env |-> NoEnv, exc |-> "none",
               site |-> "none", ret |-> None, io |-> <<>>]
    /\ calls = 0
    /\ inferCalls = 0
    /\ warnings = 0
    /\ profiles = <<>>

\* an entry point was called with outcome r
Entered(op, env, r) ==
    /\ last.op = "none"
    /\ obj' = IF r.exc = "none" THEN r.ret ELSE NoObject
    /\ last' = [op |-> op, env |-> env, exc |-> r.exc,
                site |-> r.site, ret |-> r.ret, io |-> r.io]
    /\ UNCHANGED <<input, calls, inferCalls, warnings, profiles, cmb>>
    /\ UNCHANGED lcvars

Construct ==
    \E source \in DirectSources :
        Entered("init", [source |-> source],
                SparkDataset__init__(input.df, source, input.targets,
                                     input.name, input.digest))

LoadDeltaArgs ==
    [path |-> input.path, table_name |-> input.table_name,
     version |-> input.version, targets |-> input.targets,
     name |-> input.name, digest |-> input.digest,
     extra |-> IF input.sql # None THEN {"sql"} ELSE {}]

LoadDelta ==
    \E latest \in LatestVersions :
        Entered("load_delta", [latest |-> latest],
                load_delta(LoadDeltaArgs, latest, input.df))

FromSpark ==
    \E isDelta \in BOOLEAN, latest \in LatestVersions :
        Entered("from_spark", [isDelta |-> isDelta, latest |-> latest],
                from_spark(input, isDelta, latest))

\* a method of obj was called with outcome r
Called(op, env, r) ==
    /\ last' = [op |-> op, env |-> env, exc |-> r.exc,
                site |-> r.site, ret |-> r.ret, io |-> r.io]
    /\ UNCHANGED <<cmb, lcvars>>

GetSchema ==
    /\ obj # NoObject
    /\ calls < MaxCalls
    /\ LET s == SchemaAccess(obj)
       IN  /\ obj' = [obj EXCEPT !.cache = s.cache]
           /\ inferCalls' = inferCalls + s.inferred
           /\ warnings' = warnings + s.warned
           /\ Called("schema", NoEnv,
                     IF s.exc = "none" THEN Returned(s.ret, <<>>)
                     ELSE Raised(s.exc, "schema", <<>>))
    /\ calls' = calls + 1
    /\ UNCHANGED <<input, profiles>>

ToDict ==
    /\ obj # NoObject
    /\ calls < MaxCalls
    /\ \E approx \in ApproxCounts :
        LET d == _to_dict(obj, BaseDict(obj), approx)
        IN  /\ obj' = [obj EXCEPT !.cache = d.access.cache]
            /\ inferCalls' = inferCalls + d.access.inferred
            /\ warnings' = warnings + d.access.warned
            /\ Called("to_dict", [approx |-> approx], d.out)
            /\ profiles' = IF d.out.exc = "none"
                           THEN Append(profiles, profile(obj, approx).ret)
                           ELSE profiles
    /\ calls' = calls + 1
    /\ UNCHANGED input

ToPyfunc ==
    /\ obj # NoObject
    /\ calls < MaxCalls
    /\ \E pdcols \in {obj._df.columns, obj._df.columns \ {"y"}} :
        Called("to_pyfunc", [pdcols |-> pdcols], to_pyfunc(obj, pdcols))
    /\ calls' = calls + 1
    /\ UNCHANGED <<input, obj, inferCalls, warnings, profiles>>

GetProfile ==
    /\ obj # NoObject
    /\ calls < MaxCalls
    /\ \E approx \in ApproxCounts :
        LET p == profile(obj, approx)
        IN  /\ Called("profile", [approx |-> approx], p)
            /\ profiles' = Append(profiles, p.ret)
    /\ calls' = calls + 1
    /\ UNCHANGED <<input, obj, inferCalls, warnings>>

ComputeDigest ==
    /\ obj # NoObject
    /\ calls < MaxCalls
    /\ Called("_compute_digest", NoEnv, _compute_digest(obj))
    /\ calls' = calls + 1
    /\ UNCHANGED <<input, obj, inferCalls, warnings, profiles>>

Next ==
    \/ Construct
    \/ LoadDelta
    \/ FromSpark
    \/ GetSchema
    \/ ToDict
    \/ ToPyfunc
    \/ GetProfile
    \/ ComputeDigest

Spec == Init /\ [][Next]_vars

----------------------------------------------------------------------------
(* mlflow/langchain/_langchain_autolog.py: Python values *)

\* A Python value is a record of its type t and its content.
PyNone == [t |-> "NoneType"]
PyString(x) == [t |-> "str", s |-> x]
PyDict(x) == [t |-> "dict", d |-> x]
PyInt(n) == [t |-> "int", n |-> n]
PyList(xs) == [t |-> "list", items |-> xs]
\* a langchain Document
Document(content, metadata) ==
    [t |-> "Document", doc |-> [page_content |-> content, metadata |-> metadata]]

\* isinstance(x, types)
IsInstance(x, types) == x.t \in types

\* sequences over S of length at most n
SeqsUpTo(S, n) == UNION {[1..k -> S] : k \in 0..n}

\* the dictionary a retrieved document is logged as
DocumentRow(doc) ==
    PyDict([page_content |-> doc.doc.page_content, metadata |-> doc.doc.metadata])

\* Line 63-64: the output of get_relevant_documents is turned into a list of
\* dictionaries.  Iterating a non-list raises (TypeError for a value that is
\* not iterable, AttributeError for the items of a string or a dictionary),
\* and so does an item that is not a Document.
ConvertOutput(output, func_name) ==
    IF func_name = "get_relevant_documents" /\ output # PyNone
    THEN IF output.t = "int"
         THEN [exc |-> "TypeError", value |-> PyNone]
         ELSE IF output.t # "list"
              \/ \E i \in DOMAIN output.items : output.items[i].t # "Document"
         THEN [exc |-> "AttributeError", value |-> PyNone]
         ELSE [exc |-> "none",
               value |-> PyList([i \in DOMAIN output.items |-> DocumentRow(output.items[i])])]
    ELSE [exc |-> "none", value |-> output]

\* all(isinstance(x, str) for x in input) or all(isinstance(x, dict) ...)
AllStrOrAllDict(xs) ==
    \/ \A i \in DOMAIN xs : IsInstance(xs[i], {"str"})
    \/ \A i \in DOMAIN xs : IsInstance(xs[i], {"dict"})

\* mutant: the lengths of input and output are not compared
_combine_input_and_output_NoLengthCheck(input_, output_, session_id, func_name) ==
    LET c == ConvertOutput(output_, func_name)
        output == c.value
    IN  IF c.exc # "none"
        THEN [exc |-> c.exc, ret |-> PyNone]
        ELSE IF input_ = PyNone
        THEN [exc |-> "none",
              ret |-> [output |-> IF IsInstance(output, {"list", "dict"})
                                  THEN output ELSE PyList(<<output>>),
                       session_id |-> session_id]]
        ELSE IF IsInstance(input_, {"str", "dict"})
        THEN [exc |-> "none",
              ret |-> [input |-> PyList(<<input_>>), output |-> PyList(<<output>>),
                       session_id |-> session_id]]
        ELSE IF IsInstance(input_, {"list"}) /\ AllStrOrAllDict(input_.items)
        THEN IF ~IsInstance(output, {"list"})
             THEN [exc |-> "MlflowException", ret |-> PyNone]
             ELSE [exc |-> "none",
                   ret |-> [input |-> input_, output |-> output,
                            session_id |-> session_id]]
        ELSE [exc |-> "MlflowException", ret |-> PyNone]

_combine_input_and_output(input_, output_, session_id, func_name) ==
    LET c == ConvertOutput(output_, func_name)
        output == c.value
    IN  IF c.exc # "none"
        THEN [exc |-> c.exc, ret |-> PyNone]
        ELSE IF input_ = PyNone
        THEN [exc |-> "none",
              ret |-> [output |-> IF IsInstance(output, {"list", "dict"})
                                  THEN output ELSE PyList(<<output>>),
                       session_id |-> session_id]]
        ELSE IF IsInstance(input_, {"str", "dict"})
        THEN [exc |-> "none",
              ret |-> [input |-> PyList(<<input_>>), output |-> PyList(<<output>>),
                       session_id |-> session_id]]
        ELSE IF IsInstance(input_, {"list"}) /\ AllStrOrAllDict(input_.items)
        THEN IF ~IsInstance(output, {"list"}) \/ Len(output.items) # Len(input_.items)
             THEN [exc |-> "MlflowException", ret |-> PyNone]
             ELSE [exc |-> "none",
                   ret |-> [input |-> input_, output |-> output,
                            session_id |-> session_id]]
        ELSE [exc |-> "MlflowException", ret |-> PyNone]

----------------------------------------------------------------------------
(* _combine_input_and_output applied to bounded arguments *)

FuncNames == {"__call__", "invoke", "get_relevant_documents"}

CombineInputItems == {PyString("a"), PyDict("d"), PyInt(1)}
CombineInputs ==
    {PyNone, PyString("a"), PyDict("d"), PyInt(1)}
        \cup {PyList(xs) : xs \in SeqsUpTo(CombineInputItems, MaxListLen)}

CombineOutputItems == {PyString("o"), Document("c", "m")}
CombineOutputs ==
    {PyNone, PyString("o"), PyDict("e"), PyInt(2)}
        \cup {PyList(xs) : xs \in SeqsUpTo(CombineOutputItems, MaxListLen)}

\* the dataset is not in use
DatasetIdle ==
    /\ input = [kind |-> "NoInput"]
    /\ obj = NoObject
    /\ last = [op |-> "none", env |-> NoEnv, exc |-> "none",
               site |-> "none", ret |-> None, io |-> <<>>]
    /\ calls = 0
    /\ inferCalls = 0
    /\ warnings = 0
    /\ profiles = <<>>

CombineInit ==
    /\ DatasetIdle
    /\ AutologIdle
    /\ cmb \in [phase : {"called"}, input : CombineInputs, output : CombineOutputs,
                session_id : {"s1"}, func_name : FuncNames]

Combine ==
    /\ cmb.phase = "called"
    /\ LET r == _combine_input_and_output(cmb.input, cmb.output, cmb.session_id,
                                          cmb.func_name)
       IN  cmb' = [phase |-> "done", input |-> cmb.input, output |-> cmb.output,
                   session_id |-> cmb.session_id, func_name |-> cmb.func_name,
                   exc |-> r.exc, ret |-> r.ret]
    /\ UNCHANGED <<dsvars, lcvars>>

CombineNext == Combine

CombineSpec == CombineInit /\ [][CombineNext]_vars

----------------------------------------------------------------------------
(* patched_inference: the model, the caller's objects, the callbacks *)

\* A langchain model: its class, the runnables it is composed of (the
\* branches of a RunnableBranch, the steps of a RunnableParallel or
\* RunnableSequence, the mapper of a RunnableAssign) and, for a
\* RunnableBranch, its default runnable.
Leaf(kind) == [kind |-> kind, children |-> <<>>, default |-> <<>>]
Composite(kind, children) == [kind |-> kind, children |-> children, default |-> <<>>]
Branch(children, default) ==
    [kind |-> "RunnableBranch", children |-> children, default |-> <<default>>]

\* The models, each with whether it is or contains a retriever
Models ==
    { [tree |-> Leaf("LLMChain"), retriever |-> FALSE],
      [tree |-> Leaf("BaseRetriever"), retriever |-> TRUE],
      [tree |-> Leaf("RetrievalQA"), retriever |-> TRUE],
      [tree |-> Composite("RunnableSequence",
                          <<Leaf("LLMChain"), Leaf("LLMChain")>>),
       retriever |-> FALSE],
      [tree |-> Composite("RunnableSequence",
                          <<Leaf("BaseRetriever"), Leaf("LLMChain")>>),
       retriever |-> TRUE],
      [tree |-> Composite("RunnableAssign",
                          <<Composite("RunnableParallel", <<Leaf("BaseRetriever")>>)>>),
       retriever |-> TRUE],
      [tree |-> Branch(<<Leaf("BaseRetriever")>>, Leaf("LLMChain")),
       retriever |-> TRUE],
      [tree |-> Branch(<<Leaf("LLMChain")>>, Leaf("BaseRetriever")),
       retriever |-> TRUE] }

RECURSIVE _runnable_with_retriever(_)
_runnable_with_retriever(model) ==
    IF model.kind \in {"RunnableBranch", "RunnableParallel", "RunnableSequence",
                       "RunnableAssign"}
    THEN \E i \in DOMAIN model.children : _runnable_with_retriever(model.children[i])
    ELSE model.kind = "BaseRetriever"

_chain_with_retriever(model) == model.kind = "RetrievalQA"

\* A callback is a number: 0 is the caller's own callback, k > 0 is the
\* MLflow callback created by the k-th call of patched_inference.
IsMlflowCallback(c) == c > 0

\* The values of the config and callbacks arguments are references: "None",
\* "C" (the caller's config dictionary) and "L" (the caller's callbacks list).
\* The config dictionary holds under "callbacks" a reference: "None", "L", or
\* "O", a list that an earlier call created and stored there.
Deref(heap, ref) ==
    IF ref = "L" THEN heap.L ELSE IF ref = "O" THEN heap.O ELSE <<>>

\* kwargs.get(key, None)
KwGet(kwargs, key) == IF key \in DOMAIN kwargs THEN kwargs[key] ELSE "None"

\* callbacks = <ref> or []; callbacks.append(mlflow_callback): a non-empty
\* list is appended to in place, otherwise a new list is made.  Gives the
\* heap and the contents of callbacks.
AppendCallback(heap, ref, mlflow_callback) ==
    LET old == Deref(heap, ref)
    IN  IF old # <<>>
        THEN [heap |-> IF ref = "L"
                       THEN [heap EXCEPT !.L = Append(old, mlflow_callback)]
                       ELSE [heap EXCEPT !.O = Append(old, mlflow_callback)],
              ref |-> ref,
              callbacks |-> Append(old, mlflow_callback)]
        ELSE [heap |-> heap, ref |-> "new", callbacks |-> <<mlflow_callback>>]

\* _inject_mlflow_callback(func_name, mlflow_callback, args, kwargs) on the
\* heap.  Gives the heap afterwards and the callbacks the original function
\* receives.
_inject_mlflow_callback(func_name, mlflow_callback, args, kwargs, heap) ==
    IF func_name = "invoke"
    THEN LET config == IF Len(args) >= 2 THEN args[2] ELSE KwGet(kwargs, "config")
         IN  IF config = "None"
             THEN [heap |-> heap, delivered |-> <<mlflow_callback>>]
             ELSE LET a == AppendCallback(heap, heap.C, mlflow_callback)
                  IN  [heap |-> IF a.ref = "new"
                                THEN [a.heap EXCEPT !.C = "O", !.O = a.callbacks]
                                ELSE a.heap,
                       delivered |-> a.callbacks]
    ELSE IF func_name = "__call__"
    THEN LET ref == IF Len(args) >= 3 THEN args[3] ELSE KwGet(kwargs, "callbacks")
             a == AppendCallback(heap, ref, mlflow_callback)
         IN  [heap |-> a.heap, delivered |-> a.callbacks]
    ELSE LET a == AppendCallback(heap, KwGet(kwargs, "callbacks"), mlflow_callback)
         IN  [heap |-> a.heap, delivered |-> a.callbacks]

\* The ways the caller passes config (invoke) or callbacks (the others)
CallStyles(func_name) ==
    IF func_name = "get_relevant_documents"
    THEN {"keyword", "absent"}
    ELSE {"positional", "keyword", "absent"}

\* args of the call: the input, then for a positional style the config of
\* invoke (second) or the callbacks of __call__ (third)
CallArgs(func_name, style) ==
    IF style # "positional" THEN <<"q">>
    ELSE IF func_name = "invoke" THEN <<"q", "C">>
    ELSE <<"q", "False", "L">>

\* kwargs of the call
CallKwargs(func_name, style) ==
    IF style # "keyword" THEN <<>>
    ELSE IF func_name = "invoke" THEN [k \in {"config"} |-> "C"]
    ELSE [k \in {"callbacks"} |-> "L"]

\* the callbacks the caller passes with the call, before injection
CallerCallbacks(func_name, style, heap) ==
    IF style = "absent" THEN <<>>
    ELSE IF func_name = "invoke" THEN Deref(heap, heap.C)
    ELSE heap.L

\* _get_input_data_from_function: the first positional argument
InputData(args) == IF Len(args) > 0 THEN PyString(args[1]) ELSE PyNone

\* what the original inference function returns
OriginalResult(func_name) ==
    IF func_name = "get_relevant_documents" THEN PyList(<<Document("c", "m")>>)
    ELSE IF func_name = "__call__" THEN PyDict("r")
    ELSE PyString("r")

----------------------------------------------------------------------------
(* patched_inference *)

\* the active run taken whenever there is one
ResolveRunId_ActiveFirst(self, active) ==
    IF active # None THEN active ELSE self.run_id

\* Lines 215-217: the run of the model if it has one, else the active run
ResolveRunId(self, active) ==
    IF active # None /\ self.run_id = None THEN active ELSE self.run_id

\* MlflowCallbackHandler(run_id=run_id).mlflg.run_id: the run handed in, or
\* a run the handler starts (the created-th new run)
CallbackRunId(run_id, created) ==
    IF run_id # None THEN run_id ELSE Some(10 + created)

\* Line 237: log_models and not hasattr(self, "model_logged")
ShouldLogModel(log_models, self) == log_models /\ ~self.model_logged

\* Lines 238-242: models that are not logged
UnsupportedModel(func_name, model) ==
    \/ func_name = "get_relevant_documents"
    \/ _runnable_with_retriever(model)
    \/ _chain_with_retriever(model)

\* _update_langchain_model_config(model): whether Extra could be imported,
\* which lets attributes be set on the model
_update_langchain_model_config(importOk) == importOk

\* Lines 282-286: run_id and session_id are set when the model has none
KeepSingleRun(self, mlflgRun, uuid) ==
    [self EXCEPT !.run_id = IF @ = None THEN mlflgRun ELSE @,
                 !.session_id = IF @ = None THEN uuid ELSE @]

\* uuid.uuid4().hex: the generated-th identifier
Uuid4(generated) == Some(100 + generated)

\* patched_inference(func_name, original, self, *args, **kwargs) with the
\* given active run; logFails tells whether mlflow.langchain.log_model
\* raises.  Gives the model, the heap, the history and the record of the call.
patched_inference(func_name, style, active, logFails, env, self, heap, hist) ==
    LET args == CallArgs(func_name, style)
        kwargs == CallKwargs(func_name, style)
        run_id == ResolveRunId(self, active)
        created == IF run_id = None THEN hist.created + 1 ELSE hist.created
        mlflow_callback == hist.calls + 1
        mlflgRun == CallbackRunId(run_id, created)
        inj == _inject_mlflow_callback(func_name, mlflow_callback, args, kwargs, heap)
        result == OriginalResult(func_name)
        logging == /\ ShouldLogModel(env.log_models, self)
                   /\ ~UnsupportedModel(func_name, env.model.tree)
        logged == IF logging /\ _update_langchain_model_config(env.importOk)
                  THEN [self EXCEPT !.model_logged = TRUE]
                  ELSE self
        assigns == /\ _update_langchain_model_config(env.importOk)
                   /\ logged.session_id = None
        self2 == IF _update_langchain_model_config(env.importOk)
                 THEN KeepSingleRun(logged, mlflgRun, Uuid4(hist.uuids + 1))
                 ELSE logged
        table == IF ~env.log_inputs_outputs
                 THEN [exc |-> "none", ret |-> PyNone]
                 ELSE IF self2.session_id = None
                 THEN [exc |-> "AttributeError", ret |-> PyNone]
                 ELSE _combine_input_and_output(InputData(args), result,
                                                self2.session_id, func_name)
        tableLogged == env.log_inputs_outputs /\ table.exc = "none"
    IN  [self |-> self2,
         heap |-> inj.heap,
         hist |-> [calls |-> hist.calls + 1,
                   created |-> created,
                   uuids |-> IF assigns THEN hist.uuids + 1 ELSE hist.uuids,
                   logAttempts |-> hist.logAttempts + (IF logging THEN 1 ELSE 0),
                   tagSets |-> hist.tagSets + (IF logging THEN 1 ELSE 0),
                   retrieverLogged |-> \/ hist.retrieverLogged
                                       \/ /\ logging
                                          /\ \/ env.model.retriever
                                             \/ func_name = "get_relevant_documents",
                   sessions |-> IF tableLogged
                                THEN hist.sessions \cup {table.ret.session_id}
                                ELSE hist.sessions,
                   firstRun |-> IF hist.calls = 0 THEN mlflgRun ELSE hist.firstRun],
         last |-> [func_name |-> func_name, style |-> style, active |-> active,
                   callback |-> mlflow_callback, run_id |-> run_id,
                   mlflgRun |-> mlflgRun,
                   passed |-> CallerCallbacks(func_name, style, heap),
                   delivered |-> inj.delivered,
                   logging |-> logging,
                   logFailed |-> logging /\ logFails,
                   exc |-> table.exc,
                   table |-> table.ret,
                   tableRun |-> IF tableLogged THEN mlflgRun ELSE None,
                   result |-> result]]

----------------------------------------------------------------------------
(* patched_inference called repeatedly on one model *)

ActiveRuns == {None, Some(1), Some(2)}

AutologEnvs ==
    [model : Models, importOk : BOOLEAN, log_models : BOOLEAN,
     log_inputs_outputs : BOOLEAN,
     callbacks : {<<>>, <<0>>},      \* the caller's callbacks list L
     config : {"None", "L"}]         \* what the caller's config holds as callbacks

AutologInit ==
    /\ DatasetIdle
    /\ cmb = CombineIdle
    /\ lcEnv \in AutologEnvs
    /\ lcModel = [run_id |-> None, session_id |-> None, model_logged |-> FALSE]
    /\ lcHeap = [L |-> lcEnv.callbacks, C |-> lcEnv.config, O |-> <<>>]
    /\ lcLast = [func_name |-> "none"]
    /\ lcHist = [calls |-> 0, created |-> 0, uuids |-> 0, logAttempts |-> 0,
                 tagSets |-> 0, retrieverLogged |-> FALSE, sessions |-> {},
                 firstRun |-> None]

PatchedInference ==
    /\ lcHist.calls < MaxInferences
    /\ \E func_name \in FuncNames, active \in ActiveRuns, logFails \in BOOLEAN :
       \E style \in CallStyles(func_name) :
        LET r == patched_inference(func_name, style, active, logFails,
                                   lcEnv, lcModel, lcHeap, lcHist)
        IN  /\ lcModel' = r.self
            /\ lcHeap' = r.heap
            /\ lcHist' = r.hist
            /\ lcLast' = r.last
    /\ UNCHANGED <<lcEnv, dsvars, cmb>>

AutologNext == PatchedInference

AutologSpec == AutologInit /\ [][AutologNext]_vars

----------------------------------------------------------------------------
(* Properties *)

TargetsMissing(targets, df) == targets # None /\ Val(targets) \notin df.columns

\* C1: an access to schema on a dataset whose inference raises does not
\* raise: it returns None and a warning has been logged.
C1_SchemaAccessNeverRaises ==
    (last.op = "schema" /\ obj._df.inferRaises)
        => /\ last.exc = "none"
           /\ last.ret = None
           /\ warnings >= 1

\* C2: over any sequence of schema accesses on one dataset the inference
\* utility is invoked at most once, and once schema was accessed its value is
\* held by the dataset and is the value every access returns.
C2_SchemaInferredAtMostOnce ==
    /\ inferCalls <= 1
    /\ last.op = "schema" => /\ obj.cache.computed
                             /\ last.exc = "none"
                             /\ last.ret = obj.cache.value

\* C3 (as stated): whenever an entry point fails with InvalidParameter, no
\* engine call was made before.
C3_InvalidParameterBeforeAnyIO ==
    last.exc = "InvalidParameter" => last.io = <<>>

\* C3 (amended): the InvalidParameter failures for the number of source
\* specifiers and for sql with version, and every failure of direct
\* construction, are raised before any engine call; the failure for a version
\* on a non-Delta path or table follows the Delta-format detection and
\* nothing else; the failure for a missing targets column follows source
\* resolution: in load_delta the lookup (when version is null) and
\* source.load(), in from_spark the detection and lookup (none with sql).
C3_InvalidParameterAndIO ==
    last.exc = "InvalidParameter" =>
        /\ last.site \in {"specifier", "sql_version"} => last.io = <<>>
        /\ last.op = "init" => last.io = <<>>
        /\ last.site = "not_delta" =>
               Fns(last.io) \in {<<"_is_delta_table_path">>, <<"_is_delta_table">>}
        /\ (last.site = "targets" /\ last.op = "load_delta") =>
               /\ Len(last.io) = (IF input.version = None THEN 2 ELSE 1)
               /\ Fns(last.io)[Len(last.io)] = "source.load"
        /\ (last.site = "targets" /\ last.op = "from_spark") =>
               IF input.sql # None
               THEN last.io = <<>>
               ELSE Fns(last.io)[1] \in {"_is_delta_table_path", "_is_delta_table"}

C3_Witness ==
    /\ last.op = "load_delta"
    /\ last.exc = "InvalidParameter"
    /\ last.site = "targets"
    /\ Len(last.io) = 2

\* C4: construction fails with InvalidParameter exactly when targets is
\* non-null and not a column of the dataframe; otherwise it succeeds and the
\* dataset holds the dataframe and the targets passed in.
C4_ConstructionChecksTargets ==
    last.op = "init" =>
        IF TargetsMissing(input.targets, input.df)
        THEN last.exc = "InvalidParameter" /\ obj = NoObject
        ELSE /\ last.exc = "none"
             /\ obj._df = input.df
             /\ obj._targets = input.targets

C4_Witness ==
    /\ last.op = "init"
    /\ last.exc = "none"
    /\ input.targets = Some("y")
    /\ obj._targets = Some("y")

\* the version a factory resolves: the supplied one, else the lookup's answer
Resolved(latest) == IF input.version = None THEN latest ELSE input.version

\* C5: with a valid targets column, from_spark fails with InvalidParameter,
\* producing no dataset, exactly when (1) the number of non-null values among
\* path, table_name and sql is not one, (2) sql and version are both given, or
\* (3) a version is given for a path or table that is not a Delta table; for
\* every other combination it returns a dataset.
C5_FromSparkFailures ==
    (last.op = "from_spark" /\ ~TargetsMissing(input.targets, input.df)) =>
        LET given == {o \in {"path", "table_name", "sql"} : input[o] # None}
            bad == \/ Cardinality(given) # 1
                   \/ input.sql # None /\ input.version # None
                   \/ /\ input.version # None
                      /\ input.sql = None
                      /\ ~last.env.isDelta
        IN  IF bad
            THEN last.exc = "InvalidParameter" /\ obj = NoObject
            ELSE last.exc = "none" /\ obj # NoObject /\ obj._df = input.df

C5_Witness ==
    /\ last.op = "from_spark"
    /\ last.exc = "InvalidParameter"
    /\ last.site = "not_delta"
    /\ input.version = Some(0)
    /\ ~TargetsMissing(input.targets, input.df)

\* C6 (as stated): load_delta fails with InvalidParameter when path and
\* table_name are both set or both unset, and when sql and version are both
\* set; with exactly one of path and table_name it does not fail on
\* source-specifier grounds.
C6_LoadDeltaRejectsSqlWithVersion ==
    last.op = "load_delta" =>
        /\ (input.path = None) = (input.table_name = None)
               => last.exc = "InvalidParameter"
        /\ (input.sql # None /\ input.version # None)
               => last.exc = "InvalidParameter"
        /\ (input.path = None) # (input.table_name = None)
               => last.site # "specifier"

\* C6 (amended): load_delta has no sql parameter, so a call passing sql fails
\* with TypeError whatever version is; a call without sql fails with
\* InvalidParameter when path and table_name are both set or both unset, and
\* with exactly one of them it fails only when the targets column is missing
\* from the loaded dataframe.
C6_LoadDeltaSpecifiers ==
    last.op = "load_delta" =>
        IF input.sql # None
        THEN last.exc = "TypeError" /\ last.io = <<>>
        ELSE IF (input.path = None) = (input.table_name = None)
        THEN last.exc = "InvalidParameter" /\ last.site = "specifier"
        ELSE /\ last.site # "specifier"
             /\ last.exc = (IF TargetsMissing(input.targets, input.df)
                            THEN "InvalidParameter" ELSE "none")

C6_Witness ==
    /\ last.op = "load_delta"
    /\ input.sql = None
    /\ input.path # None
    /\ input.table_name # None
    /\ last.exc = "InvalidParameter"
    /\ last.site = "specifier"

\* C7: from_spark builds a generic source carrying only the query for sql, a
\* versioned-table source carrying the path or table name when that is
\* detected as a Delta table, and otherwise a generic source carrying the
\* path or table name; a supplied version (any non-null value, 0 included) is
\* the version of the versioned-table source, and the latest-version lookup
\* is invoked only when version is null.
C7_FromSparkSourceVariant ==
    (last.op = "from_spark" /\ last.exc = "none") =>
        LET source == obj._source
            lookups == {i \in DOMAIN last.io :
                            last.io[i].fn \in {"latest_version_from_path",
                                               "latest_version_from_table_name"}}
        IN  /\ input.sql # None =>
                   source = [type |-> "SparkDatasetSource", path |-> None,
                             table_name |-> None, sql |-> input.sql]
            /\ (input.sql = None /\ last.env.isDelta) =>
                   /\ source.type = "DeltaDatasetSource"
                   /\ source.path = input.path
                   /\ source.delta_table_name = input.table_name
                   /\ source.delta_table_version = Resolved(last.env.latest)
            /\ (input.sql = None /\ ~last.env.isDelta) =>
                   source = [type |-> "SparkDatasetSource", path |-> input.path,
                             table_name |-> input.table_name, sql |-> None]
            /\ lookups # {} => input.version = None

\* C8 (as stated): in load_delta the latest-version lookup matching the
\* specifier is invoked exactly when version is null, a supplied name is
\* kept, an omitted name becomes table_name followed by "v" and the resolved
\* version, the source carries the resolved version and the dataset wraps the
\* dataframe loaded from that source.
C8_LoadDeltaDefaultName ==
    (last.op = "load_delta" /\ last.exc = "none") =>
        /\ input.name # None => obj._name = input.name
        /\ input.name = None =>
               /\ input.table_name # None
               /\ Resolved(last.env.latest) # None
               /\ obj._name = Some(Val(input.table_name) \o "v" \o
                                   ToString(Val(Resolved(last.env.latest))))

\* C8 (amended): as stated, except for the default name: with name omitted
\* and a table name given, the name is table_name followed by "v" and the
\* resolved version when that version is non-null, and table_name alone when
\* the lookup found no version; with name omitted and a path given, no name
\* is derived (it stays null).
C8_LoadDeltaResolution ==
    (last.op = "load_delta" /\ last.exc = "none") =>
        LET resolved == Resolved(last.env.latest)
            load == last.io[Len(last.io)]
        IN  /\ Fns(last.io) =
                   (IF input.version # None THEN <<>>
                    ELSE IF input.path # None
                         THEN <<"latest_version_from_path">>
                         ELSE <<"latest_version_from_table_name">>)
                   \o <<"source.load">>
            /\ input.name # None => obj._name = input.name
            /\ (input.name = None /\ input.path # None) => obj._name = None
            /\ (input.name = None /\ input.table_name # None) =>
                   obj._name = (IF resolved = None
                                THEN input.table_name
                                ELSE Some(Val(input.table_name) \o "v" \o
                                          ToString(Val(resolved))))
            /\ (input.name = None /\ input.table_name = Some("t")
                    /\ input.version = Some(1)) => obj._name = Some("tv1")
            /\ obj._source.type = "DeltaDatasetSource"
            /\ obj._source.path = input.path
            /\ obj._source.delta_table_name = input.table_name
            /\ obj._source.delta_table_version = resolved
            /\ load.arg = obj._source
            /\ obj._df = load.ret

C8_Witness ==
    /\ last.op = "load_delta"
    /\ last.exc = "none"
    /\ input.name = None
    /\ input.version = None
    /\ last.env.latest = None
    /\ obj._name = Some("t")

\* C9: serialising a dataset returns the base mapping (name, digest, source,
\* source type) extended with the JSON-encoded schema and profile; for a
\* dataset whose schema is unavailable it still succeeds and yields the
\* remaining fields.
C9_ToDictWithoutSchema ==
    last.op = "to_dict" =>
        /\ last.exc = "none"
        /\ last.ret.name = obj._name
        /\ last.ret.digest = obj._digest
        /\ last.ret.source = JsonDumps(obj._source)
        /\ last.ret.source_type = obj._source.type
        /\ last.ret.profile = JsonDumps([approx_count |-> last.env.approx])
        /\ ~obj._df.inferRaises =>
               last.ret.schema =
                   JsonDumps([mlflow_colspec |->
                                  {[name |-> c] : c \in obj._df.columns}])

\* C10: to_pyfunc returns min(N, 10000) rows of a dataframe of N rows, in
\* inputs and (when present) in outputs, and they are the first rows in the
\* engine's row order.
C10_PyfuncRowCap ==
    (last.op = "to_pyfunc" /\ last.exc = "none") =>
        LET n == obj._df.nrows
            expected == IF n <= 10000 THEN n ELSE 10000
        IN  /\ last.ret.inputs.nrows = expected
            /\ last.ret.inputs.first = 1
            /\ last.ret.outputs # None =>
                   /\ Val(last.ret.outputs).nrows = expected
                   /\ Val(last.ret.outputs).first = 1

C10_Witness ==
    /\ last.op = "to_pyfunc"
    /\ last.exc = "none"
    /\ obj._df.nrows > 10000
    /\ last.ret.inputs.nrows = 10000
    /\ last.ret.outputs # None

\* C11: to_pyfunc splits by the targets column: without targets, inputs is
\* the whole materialized table and outputs is None; with targets present in
\* the materialized table, inputs has every column but the target, outputs is
\* the target column alone and both have the same rows; with targets absent
\* from the materialized table it raises an Internal error and returns
\* nothing.
C11_PyfuncSplit ==
    last.op = "to_pyfunc" =>
        LET cols == last.env.pdcols
        IN  IF obj._targets = None
            THEN /\ last.exc = "none"
                 /\ last.ret.inputs.columns = cols
                 /\ last.ret.outputs = None
            ELSE IF Val(obj._targets) \in cols
            THEN /\ last.exc = "none"
                 /\ last.ret.inputs.columns = cols \ {Val(obj._targets)}
                 /\ last.ret.outputs # None
                 /\ Val(last.ret.outputs).name = Val(obj._targets)
                 /\ Val(last.ret.outputs).nrows = last.ret.inputs.nrows
                 /\ Val(last.ret.outputs).first = last.ret.inputs.first
            ELSE /\ last.exc = "Internal"
                 /\ last.ret = None

C11_Witness ==
    /\ last.op = "to_pyfunc"
    /\ last.exc = "none"
    /\ obj._targets = Some("y")
    /\ last.ret.inputs.columns = {"x"}
    /\ Val(last.ret.outputs).name = "y"
    /\ Val(last.ret.outputs).nrows = 2

\* C12: every access to profile invokes countApprox once, with timeout 1000
\* and confidence 0.90, and returns approx_count = what that call answered,
\* whatever earlier accesses returned.
C12_ProfileRecomputed ==
    last.op = "profile" =>
        /\ last.exc = "none"
        /\ Len(last.io) = 1
        /\ last.io[1].fn = "countApprox"
        /\ last.io[1].arg = [timeout |-> 1000, confidence |-> 90]
        /\ last.io[1].ret = last.env.approx
        /\ last.ret = [approx_count |-> last.env.approx]
        /\ profiles # <<>>
        /\ profiles[Len(profiles)] = last.ret

\* two consecutive accesses returned different values
C12_Witness ==
    /\ last.op = "profile"
    /\ Len(profiles) >= 2
    /\ profiles[Len(profiles)] # profiles[Len(profiles) - 1]
    /\ last.ret = profiles[Len(profiles)]

\* C13: the digest is determined by the dataframe's semantic hash alone, the
\* only engine call made to compute it is semanticHash(), and when that call
\* raises the exception propagates and no digest is returned.
C13_DigestFromSemanticHash ==
    last.op = "_compute_digest" =>
        /\ Fns(last.io) = <<"semanticHash">>
        /\ IF obj._df.semanticHash = None
           THEN last.exc # "none" /\ last.ret = None
           ELSE /\ last.exc = "none"
                /\ last.ret = [md5 |-> <<[int64 |-> Val(obj._df.semanticHash)]>>]

C13_Witness ==
    /\ last.op = "_compute_digest"
    /\ last.exc = "none"
    /\ obj._df.nrows > ROW_LIMIT
    /\ obj._df.semanticHash = Some(17)
    /\ last.ret = [md5 |-> <<[int64 |-> 17]>>]

\* C17: _combine_input_and_output raises or returns a table-shaped record.
\* A record with an input entry has lists of equal length as input and
\* output: a single string or dictionary input is paired with the single
\* output, a list input of all strings or all dictionaries is returned with a
\* list output of the same length and raises otherwise.  With a null input
\* the record has only output (wrapped in a list unless it is a list or a
\* dictionary) and session_id.  Any other input raises.
C17_CombineShape ==
    cmb.phase = "done" =>
        LET inp == cmb.input
            plain == cmb.func_name # "get_relevant_documents"
            keys == DOMAIN cmb.ret
        IN  /\ cmb.exc = "none" =>
                /\ cmb.ret.session_id = cmb.session_id
                /\ "input" \in keys =>
                       /\ keys = {"input", "output", "session_id"}
                       /\ cmb.ret.input.t = "list"
                       /\ cmb.ret.output.t = "list"
                       /\ Len(cmb.ret.input.items) = Len(cmb.ret.output.items)
            /\ (inp = PyNone /\ cmb.exc = "none") =>
                /\ keys = {"output", "session_id"}
                /\ cmb.ret.output.t \in {"list", "dict"}
                /\ plain => cmb.ret.output =
                                (IF cmb.output.t \in {"list", "dict"}
                                 THEN cmb.output ELSE PyList(<<cmb.output>>))
            /\ (inp.t \in {"NoneType", "str", "dict"} /\ plain) => cmb.exc = "none"
            /\ (inp.t \in {"str", "dict"} /\ cmb.exc = "none") =>
                /\ cmb.ret.input = PyList(<<inp>>)
                /\ Len(cmb.ret.output.items) = 1
                /\ plain => cmb.ret.output = PyList(<<cmb.output>>)
            /\ (inp.t = "list" /\ AllStrOrAllDict(inp.items) /\ plain) =>
                IF cmb.output.t = "list" /\ Len(cmb.output.items) = Len(inp.items)
                THEN /\ cmb.exc = "none"
                     /\ cmb.ret.input = inp
                     /\ cmb.ret.output = cmb.output
                ELSE cmb.exc = "MlflowException"
            /\ (inp.t = "int" \/ (inp.t = "list" /\ ~AllStrOrAllDict(inp.items))) =>
                cmb.exc # "none"

C17_Witness ==
    /\ cmb.phase = "done"
    /\ cmb.exc = "none"
    /\ cmb.func_name = "get_relevant_documents"
    /\ cmb.input = PyList(<<PyString("a"), PyString("a")>>)
    /\ Len(cmb.ret.output.items) = 2
    /\ cmb.ret.output.items[1].t = "dict"


\* C14: on a model whose attributes can be set, the first patched_inference
\* call assigns run_id (the run of its callback) and session_id, and they
\* stay as assigned; every later call creates its callback with that run_id
\* whatever run is active, and every inference_history record logged carries
\* that one session_id (and goes to that run).
C14_SingleRunPerModel ==
    (lcHist.calls >= 1 /\ lcEnv.importOk) =>
        /\ lcHist.firstRun # None
        /\ lcModel.run_id = lcHist.firstRun
        /\ lcModel.session_id = Uuid4(1)
        /\ lcHist.calls >= 2 => /\ lcLast.run_id = lcHist.firstRun
                                /\ lcLast.mlflgRun = lcHist.firstRun
        /\ lcHist.sessions \subseteq {Uuid4(1)}
        /\ lcLast.tableRun \in {None, lcHist.firstRun}

\* a second call made while a run other than the model's is active, with a
\* record logged
C14_Witness ==
    /\ lcHist.calls = 2
    /\ lcEnv.importOk
    /\ lcLast.active # None
    /\ lcLast.active # lcHist.firstRun
    /\ lcLast.run_id = lcHist.firstRun
    /\ lcLast.tableRun = lcHist.firstRun
    /\ lcHist.sessions = {Uuid4(1)}

\* C15 (first part): with log_models enabled, log_model is attempted at most
\* once and the extra tags are set at most once on a non-retriever model.
C15_LoggedAtMostOnce ==
    (lcHist.calls >= 1 /\ lcEnv.log_models /\ ~lcEnv.model.retriever) =>
        /\ lcHist.logAttempts <= 1
        /\ lcHist.tagSets <= 1

\* C15 (second part): a model that is a retriever, contains a retriever or
\* is called through get_relevant_documents is never passed to log_model.
C15_RetrieverNeverLogged ==
    lcHist.calls >= 1 => ~lcHist.retrieverLogged

\* C15: with log_models enabled the model and its tags are logged only once,
\* the first time, and a retriever model is never passed to log_model.
C15_ModelLoggedOnce == C15_LoggedAtMostOnce /\ C15_RetrieverNeverLogged

\* the callbacks the caller put in the config before any patched call
ConfigCallbacks == IF lcEnv.config = "L" THEN lcEnv.callbacks ELSE <<>>

\* the callbacks the caller hands to the last call
OwnCallbacks ==
    IF lcLast.style = "absent" THEN <<>>
    ELSE IF lcLast.func_name = "invoke" THEN ConfigCallbacks
    ELSE lcEnv.callbacks

\* C16: the callbacks delivered to the original function are the caller's
\* callbacks plus exactly the MLflow callback created for this call, and the
\* caller's callbacks list and config hold no MLflow callback after the
\* patched calls.
C16_InjectionLeavesCallerObjects ==
    lcHist.calls >= 1 =>
        /\ lcLast.delivered = Append(OwnCallbacks, lcLast.callback)
        /\ lcHeap.L = lcEnv.callbacks
        /\ \A i \in DOMAIN Deref(lcHeap, lcHeap.C) :
               ~IsMlflowCallback(Deref(lcHeap, lcHeap.C)[i])

====
